---- MODULE Spec2Model ----
(***************************************************************************)
(* The calculator client (c++/samples/calculator-client-with-properties)   *)
(* as a state machine: main()'s five scenarios, the PowerFunction callback *)
(* it hosts, and the two collaborators it talks to, the RPC session (one   *)
(* ordered message stream per direction, an answer table at the service)   *)
(* and the calculator service (getOperator, evaluate, defFunction, read).  *)
(* The client comes from the source; the session and the service are not   *)
(* part of that file and follow the design document.                       *)
(* Numbers are the small integers of the sample, on which the doubles of   *)
(* the wire format are exact.                                              *)
(***************************************************************************)
EXTENDS Integers, Sequences, FiniteSets, TLC

(***************************************************************************)
(* Capability references, as the client holds them.                        *)
(***************************************************************************)
NoCap == [kind |-> "none", id |-> ""]

\* Calculator::Client calculator = client.importCap<Calculator>("calculator")
Calculator == [kind |-> "import", id |-> "calculator"]

\* A pipelined capability: the func / value field of the answer to question q.
Promised(q) == [kind |-> "promised", id |-> q]

\* kj::heap<PowerFunction>(): a capability hosted by the client.
Hosted(name) == [kind |-> "hosted", id |-> name]

(***************************************************************************)
(* Expression (calculator.capnp), as main() fills it in.                   *)
(***************************************************************************)
NoExpr == [tag |-> "none", num |-> 0, cap |-> NoCap, params |-> <<>>]

Literal(n) == [tag |-> "literal", num |-> n, cap |-> NoCap, params |-> <<>>]

PreviousResult(v) == [tag |-> "previousResult", num |-> 0, cap |-> v, params |-> <<>>]

Parameter(i) == [tag |-> "parameter", num |-> i, cap |-> NoCap, params |-> <<>>]

Call(f, ps) == [tag |-> "call", num |-> 0, cap |-> f, params |-> ps]

(***************************************************************************)
(* The statements of main() that matter: a request sent, a wait on a       *)
(* promise (with the KJ_ASSERT on its value), the start and the end of a   *)
(* scenario's block, the argument check and the final return.              *)
(***************************************************************************)
NoArgs == [op |-> "", paramCount |-> 0, expr |-> NoExpr]

Stmt(op, line) ==
  [op |-> op, line |-> line, scen |-> 0, q |-> "", target |-> NoCap,
   method |-> "", args |-> NoArgs, expect |-> 0]

ArgCheck(line) == Stmt("argcheck", line)

Begin(s, line) == [Stmt("begin", line) EXCEPT !.scen = s]

End(s, line) == [Stmt("end", line) EXCEPT !.scen = s]

Return0(line) == Stmt("return", line)

\* calculator.getOperatorRequest(); request.op = op; request.send().func
GetOperator(q, op, line) ==
  [Stmt("send", line) EXCEPT !.q = q, !.target = Calculator,
                             !.method = "getOperator", !.args.op = op]

\* calculator.evaluateRequest(); request.expression = e; request.send()
Evaluate(q, e, line) ==
  [Stmt("send", line) EXCEPT !.q = q, !.target = Calculator,
                             !.method = "evaluate", !.args.expr = e]

\* Mutant: the function is declared with one parameter too many.
DefFunctionOneMore(q, n, body, line) ==
  [Stmt("send", line) EXCEPT !.q = q, !.target = Calculator,
                             !.method = "defFunction",
                             !.args.paramCount = n + 1, !.args.expr = body]

\* calculator.defFunctionRequest(); paramCount, body; request.send().func
DefFunction(q, n, body, line) ==
  [Stmt("send", line) EXCEPT !.q = q, !.target = Calculator,
                             !.method = "defFunction",
                             !.args.paramCount = n, !.args.expr = body]

\* <promise>.value->readRequest().send(): read() pipelined on the answer to v.
Read(q, v, line) ==
  [Stmt("send", line) EXCEPT !.q = q, !.target = Promised(v), !.method = "read"]

\* <promise>.wait(waitScope) and KJ_ASSERT(response.value == expect)
Wait(q, expect, line) ==
  [Stmt("wait", line) EXCEPT !.q = q, !.expect = expect]

\* The end of a full expression such as
\*   request.send().value->readRequest().send()
\* where the temporary promise of the first send(), and the pipeline it
\* carries, are destroyed while the promise of the last send() lives on.
Drop(q, line) == [Stmt("drop", line) EXCEPT !.q = q]

(***************************************************************************)
(* Scenario 1, "Evaluating a literal": evaluate(literal n), read() sent on *)
(* the promised Value, one wait.  main() uses n = 123.                     *)
(***************************************************************************)
\* Mutant: the literal is off by one.
LiteralRequestOffByOne(n) == Literal(n + 1)

LiteralRequest(n) == Literal(n)

LiteralScenario(n) ==
  << Begin(1, 71),
     Evaluate("1:evalPromise", LiteralRequest(n), 79),
     Read("1:readPromise", "1:evalPromise", 83),
     Wait("1:readPromise", n, 87),
     End(1, 91) >>

(***************************************************************************)
(* Scenario 2, "Using add and subtract": 123 + 45 - 67.                    *)
(***************************************************************************)
AddCall ==
  Call(Promised("2:add"), << Literal(123), Literal(45) >>)

\* Mutant: the parameters of subtract are filled in the other way round.
SubtractCallSwapped ==
  Call(Promised("2:subtract"), << Literal(67), AddCall >>)

SubtractCall ==
  Call(Promised("2:subtract"), << AddCall, Literal(67) >>)

AddSubtractScenario ==
  << Begin(2, 102),
     GetOperator("2:add", "ADD", 112),
     GetOperator("2:subtract", "SUBTRACT", 119),
     Evaluate("2:evalPromise", SubtractCall, 138),
     Read("2:readPromise", "2:evalPromise", 139),
     Wait("2:readPromise", 101, 141),
     End(2, 145) >>

(***************************************************************************)
(* Scenario 3, "Pipelining eval() calls": 4 * 6, then + 3 and + 5 on the   *)
(* Value of the first evaluation, which is never read.                     *)
(***************************************************************************)
MultiplyCall ==
  Call(Promised("3:multiply"), << Literal(4), Literal(6) >>)

Add3Call ==
  Call(Promised("3:add"),
       << PreviousResult(Promised("3:multiplyResult")), Literal(3) >>)

\* Mutant: the second request embeds the promise of the first addition
\* instead of the Value of 4 * 6.
Add5CallOnAdd3 ==
  Call(Promised("3:add"),
       << PreviousResult(Promised("3:add3Request")), Literal(5) >>)

Add5Call ==
  Call(Promised("3:add"),
       << PreviousResult(Promised("3:multiplyResult")), Literal(5) >>)

\* Mutant: the first result is waited for before the second read is sent.
PipeliningScenarioReadLate ==
  << Begin(3, 156),
     GetOperator("3:add", "ADD", 166),
     GetOperator("3:multiply", "MULTIPLY", 173),
     Evaluate("3:multiplyResult", MultiplyCall, 185),
     Evaluate("3:add3Request", Add3Call, 195),
     Read("3:add3Promise", "3:add3Request", 195),
     Drop("3:add3Request", 195),
     Evaluate("3:add5Request", Add5Call, 203),
     Wait("3:add3Promise", 27, 206),
     Read("3:add5Promise", "3:add5Request", 203),
     Drop("3:add5Request", 203),
     Wait("3:add5Promise", 29, 207),
     End(3, 210) >>

\* Mutant: the first result is waited for before the second evaluation is sent.
PipeliningScenarioWaitFirst ==
  << Begin(3, 156),
     GetOperator("3:add", "ADD", 166),
     GetOperator("3:multiply", "MULTIPLY", 173),
     Evaluate("3:multiplyResult", MultiplyCall, 185),
     Evaluate("3:add3Request", Add3Call, 195),
     Read("3:add3Promise", "3:add3Request", 195),
     Drop("3:add3Request", 195),
     Wait("3:add3Promise", 27, 206),
     Evaluate("3:add5Request", Add5Call, 203),
     Read("3:add5Promise", "3:add5Request", 203),
     Drop("3:add5Request", 203),
     Wait("3:add5Promise", 29, 207),
     End(3, 210) >>

PipeliningScenario ==
  << Begin(3, 156),
     GetOperator("3:add", "ADD", 166),
     GetOperator("3:multiply", "MULTIPLY", 173),
     Evaluate("3:multiplyResult", MultiplyCall, 185),
     Evaluate("3:add3Request", Add3Call, 195),
     Read("3:add3Promise", "3:add3Request", 195),
     Drop("3:add3Request", 195),
     Evaluate("3:add5Request", Add5Call, 203),
     Read("3:add5Promise", "3:add5Request", 203),
     Drop("3:add5Request", 203),
     Wait("3:add3Promise", 27, 206),
     Wait("3:add5Promise", 29, 207),
     End(3, 210) >>

(***************************************************************************)
(* Scenario 4, "Defining functions":                                       *)
(*   f(x, y) = x * 100 + y,  g(x) = f(x, x + 1) * 2,  f(12, 34),  g(21).   *)
(***************************************************************************)
\* Mutant: x and y are taken from the wrong parameters.
FBodySwapped ==
  Call(Promised("4:add"),
       << Call(Promised("4:multiply"), << Parameter(1), Literal(100) >>),
          Parameter(0) >>)

FBody ==
  Call(Promised("4:add"),
       << Call(Promised("4:multiply"), << Parameter(0), Literal(100) >>),
          Parameter(1) >>)

GBody ==
  Call(Promised("4:multiply"),
       << Call(Promised("4:f"),
               << Parameter(0),
                  Call(Promised("4:add"), << Parameter(0), Literal(1) >>) >>),
          Literal(2) >>)

FCall == Call(Promised("4:f"), << Literal(12), Literal(34) >>)

GCall == Call(Promised("4:g"), << Literal(21) >>)

\* Mutant: f(12, 34) is waited for before g(21) is sent.
DefFunctionScenarioWaitFirst ==
  << Begin(4, 223),
     GetOperator("4:add", "ADD", 235),
     GetOperator("4:multiply", "MULTIPLY", 242),
     DefFunction("4:f", 2, FBody, 264),
     DefFunction("4:g", 1, GBody, 291),
     Evaluate("4:fEvalRequest", FCall, 303),
     Read("4:fEvalPromise", "4:fEvalRequest", 303),
     Drop("4:fEvalRequest", 303),
     Wait("4:fEvalPromise", 1234, 313),
     Evaluate("4:gEvalRequest", GCall, 310),
     Read("4:gEvalPromise", "4:gEvalRequest", 310),
     Drop("4:gEvalRequest", 310),
     Wait("4:gEvalPromise", 4244, 314),
     End(4, 317) >>

DefFunctionScenario ==
  << Begin(4, 223),
     GetOperator("4:add", "ADD", 235),
     GetOperator("4:multiply", "MULTIPLY", 242),
     DefFunction("4:f", 2, FBody, 264),
     DefFunction("4:g", 1, GBody, 291),
     Evaluate("4:fEvalRequest", FCall, 303),
     Read("4:fEvalPromise", "4:fEvalRequest", 303),
     Drop("4:fEvalRequest", 303),
     Evaluate("4:gEvalRequest", GCall, 310),
     Read("4:gEvalPromise", "4:gEvalRequest", 310),
     Drop("4:gEvalRequest", 310),
     Wait("4:fEvalPromise", 1234, 313),
     Wait("4:gEvalPromise", 4244, 314),
     End(4, 317) >>

(***************************************************************************)
(* Scenario 5, "Using a callback": 2 ^ (4 + 5), the power function being   *)
(* a PowerFunction the client hosts.                                       *)
(***************************************************************************)
\* Mutant: the exponent 9 is itself worked out by the client's function, as
\* 3 ^ 2, instead of by the service's add.
PowCallTwice ==
  Call(Hosted("PowerFunction"),
       << Literal(2),
          Call(Hosted("PowerFunction"), << Literal(3), Literal(2) >>) >>)

PowCall ==
  Call(Hosted("PowerFunction"),
       << Literal(2),
          Call(Promised("5:add"), << Literal(4), Literal(5) >>) >>)

CallbackScenario ==
  << Begin(5, 334),
     GetOperator("5:add", "ADD", 343),
     Evaluate("5:request", PowCall, 361),
     Read("5:readRequest", "5:request", 362),
     Wait("5:readRequest", 512, 362),
     Drop("5:request", 362),
     End(5, 366) >>

(***************************************************************************)
(* main(): the argument check, the five scenarios in order, return 0.      *)
(***************************************************************************)
Main(n) ==
  << ArgCheck(45) >> \o LiteralScenario(n) \o AddSubtractScenario
    \o PipeliningScenario \o DefFunctionScenario \o CallbackScenario
    \o << Return0(368) >>

MainProgram == Main(123)

(***************************************************************************)
(* Other clients of the same session, used to put questions to it that     *)
(* main() does not: scenario 1 alone on other literals, scenario 1 with a   *)
(* second read() sent on the same promised Value, and scenario 1 next to   *)
(* an evaluation whose promise is dropped unread.                          *)
(***************************************************************************)
MaxLiteral == 2

LiteralInputs == (-MaxLiteral)..MaxLiteral

LiteralOnly(n) ==
  << ArgCheck(45) >> \o LiteralScenario(n) \o << Return0(368) >>

ReadTwice(n) ==
  << ArgCheck(45),
     Begin(1, 71),
     Evaluate("1:evalPromise", LiteralRequest(n), 79),
     Read("1:readPromise", "1:evalPromise", 83),
     Read("1:readAgain", "1:evalPromise", 83),
     Wait("1:readPromise", n, 87),
     Wait("1:readAgain", n, 87),
     End(1, 91),
     Return0(368) >>

\* Scenario 1 with an evaluation whose promise is dropped at once, nothing
\* being pipelined on it, next to the one that is read.
DropUnread(n) ==
  << ArgCheck(45),
     Begin(1, 71),
     Evaluate("1:dropped", LiteralRequest(n + 1), 79),
     Drop("1:dropped", 79),
     Evaluate("1:evalPromise", LiteralRequest(n), 79),
     Read("1:readPromise", "1:evalPromise", 83),
     Wait("1:readPromise", n, 87),
     End(1, 91),
     Return0(368) >>

Clients ==
  {MainProgram} \cup { LiteralOnly(n) : n \in LiteralInputs }
    \cup { ReadTwice(n) : n \in LiteralInputs }
    \cup { DropUnread(n) : n \in LiteralInputs }

(***************************************************************************)
(* Clients that misuse the Function capabilities: the calls of main() made *)
(* with k parameters instead of two, a defined function whose body names a *)
(* parameter it does not have, and two independent branches of which one   *)
(* fails.  The parameters are the literals 2, 3, ...                       *)
(***************************************************************************)
MaxParams == 3

ParamCounts == 0..MaxParams

Params(k) == [i \in 1..k |-> Literal(i + 1)]

\* call(PowerFunction, [2, 3, ...]): scenario 5 with k parameters.
CallPower(k) ==
  << ArgCheck(45),
     Begin(5, 334),
     Evaluate("5:request", Call(Hosted("PowerFunction"), Params(k)), 361),
     Read("5:readRequest", "5:request", 362),
     Wait("5:readRequest", 8, 362),
     Drop("5:request", 362),
     End(5, 366),
     Return0(368) >>

\* call(add, [2, 3, ...]): scenario 2 with k parameters.
CallOperator(k) ==
  << ArgCheck(45),
     Begin(2, 102),
     GetOperator("2:add", "ADD", 112),
     Evaluate("2:evalPromise", Call(Promised("2:add"), Params(k)), 138),
     Read("2:readPromise", "2:evalPromise", 139),
     Wait("2:readPromise", 5, 141),
     End(2, 145),
     Return0(368) >>

\* call(f, [2, 3, ...]), f(x, y) = x * 100 + y: scenario 4 with k parameters.
CallDefined(k) ==
  << ArgCheck(45),
     Begin(4, 223),
     GetOperator("4:add", "ADD", 235),
     GetOperator("4:multiply", "MULTIPLY", 242),
     DefFunction("4:f", 2, FBody, 264),
     Evaluate("4:fEvalRequest", Call(Promised("4:f"), Params(k)), 303),
     Read("4:fEvalPromise", "4:fEvalRequest", 303),
     Drop("4:fEvalRequest", 303),
     Wait("4:fEvalPromise", 203, 313),
     End(4, 317),
     Return0(368) >>

\* call(add, [2, 3, ...]) with two read() calls sent on its promised Value.
ReadTwiceOf(k) ==
  << ArgCheck(45),
     Begin(2, 102),
     GetOperator("2:add", "ADD", 112),
     Evaluate("2:evalPromise", Call(Promised("2:add"), Params(k)), 138),
     Read("2:readPromise", "2:evalPromise", 139),
     Read("2:readAgain", "2:evalPromise", 139),
     Wait("2:readPromise", 5, 141),
     Wait("2:readAgain", 5, 141),
     End(2, 145),
     Return0(368) >>

\* h(x) = x + parameter(i), defined with paramCount = 1, then h(21).
HBody(i) == Call(Promised("4:add"), << Parameter(0), Parameter(i) >>)

UnboundParameter(i) ==
  << ArgCheck(45),
     Begin(4, 223),
     GetOperator("4:add", "ADD", 235),
     DefFunction("4:g", 1, HBody(i), 291),
     Evaluate("4:gEvalRequest", GCall, 310),
     Read("4:gEvalPromise", "4:gEvalRequest", 310),
     Drop("4:gEvalRequest", 310),
     Wait("4:gEvalPromise", 42, 314),
     End(4, 317),
     Return0(368) >>

\* Scenario 4 with two calls of f sent before any wait: one with k
\* parameters, then f(12, 34); the two results waited for in either order.
Siblings(k, okFirst) ==
  << ArgCheck(45),
     Begin(4, 223),
     GetOperator("4:add", "ADD", 235),
     GetOperator("4:multiply", "MULTIPLY", 242),
     DefFunction("4:f", 2, FBody, 264),
     Evaluate("4:badRequest", Call(Promised("4:f"), Params(k)), 303),
     Read("4:badPromise", "4:badRequest", 303),
     Drop("4:badRequest", 303),
     Evaluate("4:fEvalRequest", FCall, 310),
     Read("4:fEvalPromise", "4:fEvalRequest", 310),
     Drop("4:fEvalRequest", 310),
     IF okFirst THEN Wait("4:fEvalPromise", 1234, 313)
                ELSE Wait("4:badPromise", 203, 313),
     IF okFirst THEN Wait("4:badPromise", 203, 314)
                ELSE Wait("4:fEvalPromise", 1234, 314),
     End(4, 317),
     Return0(368) >>

ErrorClients ==
  { CallPower(k) : k \in ParamCounts }
    \cup { CallOperator(k) : k \in ParamCounts }
    \cup { CallDefined(k) : k \in ParamCounts }
    \cup { ReadTwiceOf(k) : k \in ParamCounts }
    \cup { UnboundParameter(i) : i \in ParamCounts }
    \cup { Siblings(k, b) : k \in ParamCounts, b \in BOOLEAN }

UsageExit == 1

SuccessExit == 0

(***************************************************************************)
(* Results of calls: a Function capability (a built-in operator when op is *)
(* set, else a defined function), a Value capability holding a number, a   *)
(* plain number (read, call), or a failure.                                *)
(***************************************************************************)
NoResult ==
  [type |-> "none", op |-> "", paramCount |-> 0, body |-> NoExpr,
   num |-> 0, err |-> ""]

OperatorFunc(op) == [NoResult EXCEPT !.type = "func", !.op = op]

UserFunc(n, body) ==
  [NoResult EXCEPT !.type = "func", !.paramCount = n, !.body = body]

ValueCap(n) == [NoResult EXCEPT !.type = "value", !.num = n]

Number(n) == [NoResult EXCEPT !.type = "number", !.num = n]

Failure(e) == [NoResult EXCEPT !.type = "error", !.err = e]

(***************************************************************************)
(* PowerFunction::call, the Function the client implements: exactly two    *)
(* parameters are required, the result is pow(params[0], params[1]) and    *)
(* the call completes at once (kj::READY_NOW).                             *)
(***************************************************************************)
RECURSIVE pow(_, _)
pow(b, e) == IF e <= 0 THEN 1 ELSE b * pow(b, e - 1)

\* Mutant: base and exponent taken in the wrong order.
PowerFunctionCallSwapped(params) ==
  IF Len(params) # 2
    THEN Failure("Wrong number of parameters.")
    ELSE Number(pow(params[2], params[1]))

\* Mutant: parameters beyond the second are ignored.
PowerFunctionCallTruncating(params) ==
  IF Len(params) < 2
    THEN Failure("Wrong number of parameters.")
    ELSE Number(pow(params[1], params[2]))

PowerFunctionCall(params) ==
  IF Len(params) # 2
    THEN Failure("Wrong number of parameters.")
    ELSE Number(pow(params[1], params[2]))

\* Mutant: the call returns a promise that never completes.
PowerFunctionNeverDone == FALSE

PowerFunctionReady == TRUE

(***************************************************************************)
(* The service's evaluator.  An evaluation yields a value, an error, the   *)
(* need to wait for a capability or Value that has not resolved yet        *)
(* ("blocked"), or the need to call a function the client hosts ("call").  *)
(* cb holds the results of the calls to client-hosted functions this       *)
(* evaluation has already made, in evaluation order; k counts those used.  *)
(***************************************************************************)
EVal(n, k) == [st |-> "val", num |-> n, err |-> "", vals |-> <<>>, cap |-> NoCap, k |-> k]

EVals(vs, k) == [st |-> "val", num |-> 0, err |-> "", vals |-> vs, cap |-> NoCap, k |-> k]

EErr(e, k) == [st |-> "err", num |-> 0, err |-> e, vals |-> <<>>, cap |-> NoCap, k |-> k]

EBlocked(k) == [st |-> "blocked", num |-> 0, err |-> "", vals |-> <<>>, cap |-> NoCap, k |-> k]

ECall(f, vs, k) == [st |-> "call", num |-> 0, err |-> "", vals |-> vs, cap |-> f, k |-> k]

\* A built-in operator: arity 2, the binary arithmetic operation.
ApplyOperator(op, vals, k) ==
  IF Len(vals) # 2 THEN EErr("ArityError", k)
  ELSE CASE op = "ADD" -> EVal(vals[1] + vals[2], k)
         [] op = "SUBTRACT" -> EVal(vals[1] - vals[2], k)
         [] op = "MULTIPLY" -> EVal(vals[1] * vals[2], k)
         [] op = "DIVIDE" -> IF vals[2] = 0 THEN EErr("DomainError", k)
                             ELSE EVal(vals[1] \div vals[2], k)
         [] OTHER -> EErr("UnknownOperator", k)

\* The continuation F applied to the value of x, x being worked out once.
Then(x, F(_)) == CHOOSE y \in { F(v) : v \in {x} } : TRUE

RECURSIVE EvalExpr(_, _, _, _, _)
RECURSIVE EvalParams(_, _, _, _, _, _)
RECURSIVE Invoke(_, _, _, _, _)

\* evaluate(expr): literal, previousResult (the Value's number, once it has
\* resolved), parameter (the i-th argument of the enclosing function call),
\* call (the parameters evaluated in order, then the function invoked).
EvalExpr(e, args, ans, cb, k) ==
  CASE e.tag = "literal" -> EVal(e.num, k)
    [] e.tag = "previousResult" ->
         LET a == ans[e.cap.id]
         IN  IF a.st # "done" THEN EBlocked(k)
             ELSE IF a.res.type = "value" THEN EVal(a.res.num, k)
             ELSE IF a.res.type = "error" THEN EErr(a.res.err, k)
             ELSE EErr("NotAValue", k)
    [] e.tag = "parameter" ->
         IF e.num < Len(args) THEN EVal(args[e.num + 1], k)
         ELSE EErr("UnboundParameterError", k)
    [] e.tag = "call" ->
         Then(EvalParams(e.params, args, ans, cb, k, <<>>),
              LAMBDA ps : IF ps.st # "val" THEN ps
                          ELSE Invoke(e.cap, ps.vals, ans, cb, ps.k))
    [] OTHER -> EErr("MalformedExpression", k)

EvalParams(es, args, ans, cb, k, acc) ==
  IF es = <<>> THEN EVals(acc, k)
  ELSE Then(EvalExpr(Head(es), args, ans, cb, k),
            LAMBDA r : IF r.st # "val" THEN r
                       ELSE EvalParams(Tail(es), args, ans, cb, r.k,
                                       Append(acc, r.num)))

\* Function.call(params) on whatever the capability turns out to be: an
\* operator, a defined function (its body, with the parameters rebound to
\* this call's arguments), or a function hosted by the client.
Invoke(f, vals, ans, cb, k) ==
  IF f.kind = "hosted" THEN
    IF k < Len(cb)
      THEN IF cb[k + 1].type = "number" THEN EVal(cb[k + 1].num, k + 1)
           ELSE EErr(cb[k + 1].err, k + 1)
      ELSE ECall(f, vals, k)
  ELSE IF f.kind = "promised" THEN
    LET a == ans[f.id]
    IN  IF a.st # "done" THEN EBlocked(k)
        ELSE IF a.res.type = "error" THEN EErr(a.res.err, k)
        ELSE IF a.res.type # "func" THEN EErr("NotAFunction", k)
        ELSE IF a.res.op # "" THEN ApplyOperator(a.res.op, vals, k)
        ELSE IF Len(vals) # a.res.paramCount THEN EErr("ArityError", k)
        ELSE EvalExpr(a.res.body, vals, ans, cb, k)
  ELSE EErr("NotAFunction", k)

(***************************************************************************)
(* Messages of the session.  Each carries its hop: one more than the       *)
(* highest hop its sender had seen, so that a message that could only be   *)
(* sent after a reply came back is two hops later than the request.        *)
(***************************************************************************)
NoMsg ==
  [type |-> "none", q |-> "", target |-> NoCap, method |-> "", args |-> NoArgs,
   vals |-> <<>>, res |-> NoResult, qs |-> {}, hop |-> 0]

CallMsg(q, target, method, args, hop) ==
  [NoMsg EXCEPT !.type = "call", !.q = q, !.target = target,
                !.method = method, !.args = args, !.hop = hop]

CallbackMsg(q, f, vals, hop) ==
  [NoMsg EXCEPT !.type = "call", !.q = q, !.target = f, !.method = "call",
                !.vals = vals, !.hop = hop]

ReturnMsg(q, res, hop) ==
  [NoMsg EXCEPT !.type = "return", !.q = q, !.res = res, !.hop = hop]

FinishMsg(qs, hop) == [NoMsg EXCEPT !.type = "finish", !.qs = qs, !.hop = hop]

Max(a, b) == IF a >= b THEN a ELSE b

\* The questions a program asks.
QNames(p) == { p[i].q : i \in { j \in 1..Len(p) : p[j].op = "send" } }

\* The capabilities hosted by the client that an expression hands over.
RECURSIVE HostedIn(_)
HostedIn(e) ==
  (IF e.cap.kind = "hosted" THEN {e.cap.id} ELSE {})
    \cup UNION { HostedIn(e.params[i]) : i \in 1..Len(e.params) }

\* The promised capabilities an expression embeds.
RECURSIVE PromisedIn(_)
PromisedIn(e) ==
  (IF e.cap.kind = "promised" THEN {e.cap.id} ELSE {})
    \cup UNION { PromisedIn(e.params[i]) : i \in 1..Len(e.params) }

NoQuestion == [st |-> "none", res |-> NoResult]

\* A promise broken by the transport.
Broken == [st |-> "done", res |-> Failure("TransportFailure")]

NoAnswer ==
  [st |-> "none", res |-> NoResult, method |-> "", target |-> NoCap,
   args |-> NoArgs, seq |-> 0, held |-> FALSE, cb |-> <<>>, cbOut |-> FALSE,
   finished |-> FALSE]

NoScenario == [scen |-> 0, start |-> 0, rpcs |-> 0, waits |-> 0]

NoStats == [done |-> FALSE, rpcs |-> 0, trips |-> 0, waits |-> 0]

Scenarios == 1..5

\* The argument counts tried: too few, HOST:PORT, too many.
MaxArgc == 3

VARIABLES
  argc,        \* main's argc
  prog,        \* the statements of main()
  pc,          \* the statement main() is at
  status,      \* "running", "exit" (returned from main) or "abort"
  exitCode,    \* main's return value, once status = "exit"
  questions,   \* the client's question table: the promises it holds
  exports,     \* the capabilities the client hosts and has handed out
  clock,       \* the highest hop the client has seen
  cur,         \* the running scenario: where its clock started, its counts
  stats,       \* per finished scenario: requests sent, round trips, waits
  powerCalls,  \* the parameter lists PowerFunction::call has received
  c2s,         \* messages in flight, client to service, in order
  s2c,         \* messages in flight, service to client, in order
  answers,     \* the service's answer table
  arrivals,    \* how many calls the service has received
  sclock,      \* the highest hop the service has seen
  link         \* the connection: "up", or "down" once the transport failed

vars ==
  << argc, prog, pc, status, exitCode, questions, exports, clock, cur, stats,
     powerCalls, c2s, s2c, answers, arrivals, sclock, link >>

clientVars ==
  << pc, status, exitCode, questions, exports, clock, cur, stats, powerCalls >>

serverVars == << answers, arrivals, sclock >>

InitWith(p) ==
  /\ argc \in 1..MaxArgc
  /\ prog = p
  /\ pc = 1
  /\ status = "running"
  /\ exitCode = -1
  /\ questions = [q \in QNames(p) |-> NoQuestion]
  /\ exports = {}
  /\ clock = 0
  /\ cur = NoScenario
  /\ stats = [s \in Scenarios |-> NoStats]
  /\ powerCalls = <<>>
  /\ c2s = <<>>
  /\ s2c = <<>>
  /\ answers = [q \in QNames(p) |-> NoAnswer]
  /\ arrivals = 0
  /\ sclock = 0
  /\ link = "up"

Init == InitWith(MainProgram)

InitClients == \E p \in Clients : InitWith(p)

Running == status = "running" /\ pc <= Len(prog)

At(op) == Running /\ prog[pc].op = op

\* The client is inside promise.wait(waitScope) and the promise is not ready:
\* the only place where its event loop runs.
Suspended == At("wait") /\ questions[prog[pc].q].st # "done"

(***************************************************************************)
(* The client: main().                                                     *)
(***************************************************************************)
\* if (argc != 2) { usage; return 1; }
ClientArgCheck ==
  /\ At("argcheck")
  /\ IF argc # 2
       THEN /\ status' = "exit"
            /\ exitCode' = UsageExit
            /\ pc' = pc
       ELSE /\ pc' = pc + 1
            /\ UNCHANGED << status, exitCode >>
  /\ UNCHANGED << argc, prog, link, questions, exports, clock, cur, stats,
                  powerCalls, c2s, s2c, answers, arrivals, sclock >>

\* A scenario's block is entered.
ClientBegin ==
  /\ At("begin")
  /\ cur' = [NoScenario EXCEPT !.scen = prog[pc].scen, !.start = clock]
  /\ pc' = pc + 1
  /\ UNCHANGED << argc, prog, link, status, exitCode, questions, exports, clock,
                  stats, powerCalls, c2s, s2c, answers, arrivals, sclock >>

\* Mutant: the call is put in front of those not yet taken by the service.
ClientSendOvertakes ==
  /\ At("send")
  /\ LET i == prog[pc]
     IN  /\ questions' =
               [questions EXCEPT ![i.q] =
                  IF link = "up" THEN [st |-> "pending", res |-> NoResult]
                  ELSE Broken]
         /\ exports' = exports \cup HostedIn(i.args.expr)
         /\ c2s' = IF link = "up"
                     THEN << CallMsg(i.q, i.target, i.method, i.args, clock + 1) >>
                            \o c2s
                     ELSE c2s
  /\ cur' = [cur EXCEPT !.rpcs = @ + 1]
  /\ pc' = pc + 1
  /\ UNCHANGED << argc, prog, link, status, exitCode, clock, stats, powerCalls, s2c,
                  answers, arrivals, sclock >>

\* request.send(): the call is handed to the session and a promise for its
\* answer is held; nothing is waited for.  On a connection that has failed
\* the promise is broken from the start.
ClientSend ==
  /\ At("send")
  /\ LET i == prog[pc]
     IN  /\ questions' =
               [questions EXCEPT ![i.q] =
                  IF link = "up" THEN [st |-> "pending", res |-> NoResult]
                  ELSE Broken]
         /\ exports' = exports \cup HostedIn(i.args.expr)
         /\ c2s' = IF link = "up"
                     THEN Append(c2s, CallMsg(i.q, i.target, i.method, i.args,
                                              clock + 1))
                     ELSE c2s
  /\ cur' = [cur EXCEPT !.rpcs = @ + 1]
  /\ pc' = pc + 1
  /\ UNCHANGED << argc, prog, link, status, exitCode, clock, stats, powerCalls, s2c,
                  answers, arrivals, sclock >>

\* Mutant: wait() returns only when the promise has resolved to a result; on
\* a failed promise it stays suspended.
ClientWaitHangs ==
  /\ At("wait")
  /\ questions[prog[pc].q].st = "done"
  /\ questions[prog[pc].q].res.type # "error"
  /\ LET r == questions[prog[pc].q].res
     IN  IF r.type = "number" /\ r.num = prog[pc].expect
           THEN /\ pc' = pc + 1
                /\ status' = status
           ELSE /\ pc' = pc
                /\ status' = "abort"
  /\ cur' = [cur EXCEPT !.waits = @ + 1]
  /\ UNCHANGED << argc, prog, link, exitCode, questions, exports, clock, stats,
                  powerCalls, c2s, s2c, answers, arrivals, sclock >>

\* Mutant: a wait() that fails, or an assertion that does not hold, is passed
\* over and main() goes on.
ClientWaitContinues ==
  /\ At("wait")
  /\ questions[prog[pc].q].st = "done"
  /\ pc' = pc + 1
  /\ status' = status
  /\ cur' = [cur EXCEPT !.waits = @ + 1]
  /\ UNCHANGED << argc, prog, link, exitCode, questions, exports, clock, stats,
                  powerCalls, c2s, s2c, answers, arrivals, sclock >>

\* promise.wait(waitScope) returns once the promise is resolved; then
\* KJ_ASSERT(response.value == expect).  A failed call throws from wait().
ClientWait ==
  /\ At("wait")
  /\ questions[prog[pc].q].st = "done"
  /\ LET r == questions[prog[pc].q].res
     IN  IF r.type = "number" /\ r.num = prog[pc].expect
           THEN /\ pc' = pc + 1
                /\ status' = status
           ELSE /\ pc' = pc
                /\ status' = "abort"
  /\ cur' = [cur EXCEPT !.waits = @ + 1]
  /\ UNCHANGED << argc, prog, link, exitCode, questions, exports, clock, stats,
                  powerCalls, c2s, s2c, answers, arrivals, sclock >>

\* Mutant: a Return for a promise other than the one waited for is discarded.
ClientRecvReturnAwaitedOnly ==
  /\ Suspended
  /\ s2c # <<>>
  /\ Head(s2c).type = "return"
  /\ LET m == Head(s2c)
     IN  /\ questions' =
               IF questions[m.q].st = "pending" /\ m.q = prog[pc].q
                 THEN [questions EXCEPT ![m.q] = [st |-> "done", res |-> m.res]]
                 ELSE questions
         /\ clock' = Max(clock, m.hop)
  /\ s2c' = Tail(s2c)
  /\ UNCHANGED << argc, prog, link, pc, status, exitCode, exports, cur, stats,
                  powerCalls, c2s, answers, arrivals, sclock >>

\* Mutant: a Return that carries a failure breaks every outstanding promise.
ClientRecvReturnPoisons ==
  /\ Suspended
  /\ s2c # <<>>
  /\ Head(s2c).type = "return"
  /\ LET m == Head(s2c)
     IN  /\ questions' =
               IF m.res.type = "error"
                 THEN [q \in DOMAIN questions |->
                         IF questions[q].st = "pending"
                           THEN [st |-> "done", res |-> m.res]
                           ELSE questions[q]]
               ELSE IF questions[m.q].st = "pending"
                 THEN [questions EXCEPT ![m.q] = [st |-> "done", res |-> m.res]]
                 ELSE questions
         /\ clock' = Max(clock, m.hop)
  /\ s2c' = Tail(s2c)
  /\ UNCHANGED << argc, prog, link, pc, status, exitCode, exports, cur, stats,
                  powerCalls, c2s, answers, arrivals, sclock >>

\* Inside wait(): a Return arrives and resolves the promise of its question.
ClientRecvReturn ==
  /\ Suspended
  /\ s2c # <<>>
  /\ Head(s2c).type = "return"
  /\ LET m == Head(s2c)
     IN  /\ questions' =
               IF questions[m.q].st = "pending"
                 THEN [questions EXCEPT ![m.q] = [st |-> "done", res |-> m.res]]
                 ELSE questions
         /\ clock' = Max(clock, m.hop)
  /\ s2c' = Tail(s2c)
  /\ UNCHANGED << argc, prog, link, pc, status, exitCode, exports, cur, stats,
                  powerCalls, c2s, answers, arrivals, sclock >>

\* Inside wait(): a call from the service to a capability the client hosts is
\* dispatched to PowerFunction::call and answered.
ClientDispatchCall ==
  /\ Suspended
  /\ s2c # <<>>
  /\ Head(s2c).type = "call"
  /\ LET m == Head(s2c)
     IN  /\ m.target.id \in exports
         /\ powerCalls' = Append(powerCalls, m.vals)
         /\ clock' = Max(clock, m.hop)
         /\ c2s' = IF PowerFunctionReady
                     THEN Append(c2s, ReturnMsg(m.q, PowerFunctionCall(m.vals),
                                                Max(clock, m.hop) + 1))
                     ELSE c2s
  /\ s2c' = Tail(s2c)
  /\ UNCHANGED << argc, prog, link, pc, status, exitCode, questions, exports, cur,
                  stats, answers, arrivals, sclock >>

\* Mutant: the session is not told that the promise is gone.
ClientDropLeaks ==
  /\ At("drop")
  /\ questions' = [questions EXCEPT ![prog[pc].q] = NoQuestion]
  /\ pc' = pc + 1
  /\ UNCHANGED << argc, prog, link, status, exitCode, exports, clock, cur,
                  stats, powerCalls, c2s, s2c, answers, arrivals, sclock >>

\* A temporary promise is destroyed, resolved or not: the client forgets the
\* question and tells the session so.
ClientDrop ==
  /\ At("drop")
  /\ questions' = [questions EXCEPT ![prog[pc].q] = NoQuestion]
  /\ c2s' = IF link = "up" /\ questions[prog[pc].q].st # "none"
              THEN Append(c2s, FinishMsg({prog[pc].q}, clock + 1))
              ELSE c2s
  /\ pc' = pc + 1
  /\ UNCHANGED << argc, prog, link, status, exitCode, exports, clock, cur,
                  stats, powerCalls, s2c, answers, arrivals, sclock >>

\* The scenario's block is left: its promises and capabilities go out of
\* scope and the session is told to forget their questions.
ClientEnd ==
  /\ At("end")
  /\ LET held == { q \in DOMAIN questions : questions[q].st # "none" }
     IN  /\ questions' = [q \in DOMAIN questions |-> NoQuestion]
         /\ c2s' = IF link = "up" THEN Append(c2s, FinishMsg(held, clock + 1))
                   ELSE c2s
  /\ stats' = [stats EXCEPT ![cur.scen] =
                 [done |-> TRUE, rpcs |-> cur.rpcs,
                  trips |-> (clock - cur.start) \div 2, waits |-> cur.waits]]
  /\ cur' = NoScenario
  /\ pc' = pc + 1
  /\ UNCHANGED << argc, prog, link, status, exitCode, exports, clock, powerCalls,
                  s2c, answers, arrivals, sclock >>

\* return 0;
ClientReturn ==
  /\ At("return")
  /\ status' = "exit"
  /\ exitCode' = SuccessExit
  /\ UNCHANGED << argc, prog, link, pc, questions, exports, clock, cur, stats,
                  powerCalls, c2s, s2c, answers, arrivals, sclock >>

(***************************************************************************)
(* The session at the service, and the calculator service.                 *)
(***************************************************************************)
\* Mutant: a call addressed to a promise is delivered without waiting for it.
TargetAssumedResolved(t, ans) == t.kind \in {"import", "promised"}

\* Whether the capability a call is addressed to is there to take it: the
\* calculator itself, or the result of an answer that has resolved.
TargetResolved(t, ans) ==
  \/ t.kind = "import"
  \/ t.kind = "promised" /\ ans[t.id].st = "done"

\* Whether calls addressed to the same capability are still held.
HeldFor(t, ans) == \E o \in DOMAIN ans : ans[o].st = "held" /\ ans[o].target = t

\* A call arrives.  It is delivered to its target at once if the target has
\* resolved and nothing is held for it; a call addressed to a promise is held
\* until the promise resolves, behind the calls already held for it.
ServerRecvCall ==
  /\ c2s # <<>>
  /\ Head(c2s).type = "call"
  /\ LET m == Head(c2s)
         now == TargetResolved(m.target, answers) /\ ~HeldFor(m.target, answers)
     IN  answers' = [answers EXCEPT ![m.q] =
                       [NoAnswer EXCEPT !.st = IF now THEN "running" ELSE "held",
                                        !.method = m.method, !.target = m.target,
                                        !.args = m.args, !.seq = arrivals + 1,
                                        !.held = ~now]]
  /\ arrivals' = arrivals + 1
  /\ sclock' = Max(sclock, Head(c2s).hop)
  /\ c2s' = Tail(c2s)
  /\ UNCHANGED << argc, prog, link, s2c >>
  /\ UNCHANGED clientVars

\* The calls the service still has to carry out that need the answer to q:
\* those addressed to its result and the evaluations that embed it.
Dependents(q, ans) ==
  { o \in DOMAIN ans :
      /\ ans[o].st \in {"held", "running"}
      /\ (ans[o].target = Promised(q) \/ q \in PromisedIn(ans[o].args.expr)) }

\* The answers the client has finished with are forgotten as soon as no call
\* still needs them; one that has not completed by then is cancelled.
RECURSIVE Sweep(_)
Sweep(ans) ==
  LET gone == { q \in DOMAIN ans : ans[q].finished /\ Dependents(q, ans) = {} }
  IN  IF gone = {} THEN ans
      ELSE Sweep([q \in DOMAIN ans |-> IF q \in gone THEN NoAnswer ELSE ans[q]])

\* The calls held for the same promise are delivered in the order they came.
FirstHeld(q, ans) ==
  \A o \in DOMAIN ans :
    (ans[o].st = "held" /\ ans[o].target = ans[q].target) => ans[q].seq <= ans[o].seq

\* The promise a held call was addressed to has resolved: the call is delivered.
ServerDeliver(q) ==
  /\ answers[q].st = "held"
  /\ TargetResolved(answers[q].target, answers)
  /\ FirstHeld(q, answers)
  /\ answers' = [answers EXCEPT ![q].st = "running"]
  /\ UNCHANGED << argc, prog, link, c2s, s2c, arrivals, sclock >>
  /\ UNCHANGED clientVars

\* What a delivered call computes.  An evaluation that has to wait, or to
\* call the client, has no outcome yet.
Evaluation(q, ans) == EvalExpr(ans[q].args.expr, <<>>, ans, ans[q].cb, 0)

\* Mutant: what a read yields depends on when it arrived.
OutcomeReadDrifts(q, ans) ==
  LET a == ans[q]
  IN  CASE a.method = "getOperator" -> OperatorFunc(a.args.op)
        [] a.method = "defFunction" -> UserFunc(a.args.paramCount, a.args.expr)
        [] a.method = "read" ->
             LET v == ans[a.target.id].res
             IN  IF v.type = "value" THEN Number(v.num + a.seq)
                 ELSE Failure("NotAValue")
        [] a.method = "evaluate" ->
             LET r == Evaluation(q, ans)
             IN  IF r.st = "val" THEN ValueCap(r.num)
                 ELSE IF r.st = "err" THEN Failure(r.err)
                 ELSE NoResult
        [] OTHER -> Failure("UnknownMethod")

Outcome(q, ans) ==
  LET a == ans[q]
  IN  CASE a.method = "getOperator" -> OperatorFunc(a.args.op)
        [] a.method = "defFunction" -> UserFunc(a.args.paramCount, a.args.expr)
        [] a.method = "read" ->
             LET v == ans[a.target.id].res
             IN  IF v.type = "value" THEN Number(v.num)
                 ELSE IF v.type = "error" THEN v
                 ELSE Failure("NotAValue")
        [] a.method = "evaluate" ->
             LET r == Evaluation(q, ans)
             IN  IF r.st = "val" THEN ValueCap(r.num)
                 ELSE IF r.st = "err" THEN Failure(r.err)
                 ELSE NoResult
        [] OTHER -> Failure("UnknownMethod")

\* A delivered call completes: its answer resolves and the Return is sent.
\* Calls that do not depend on one another complete in any order.
ServerComplete(q) ==
  /\ answers[q].st = "running"
  /\ ~answers[q].cbOut
  /\ Outcome(q, answers).type # "none"
  /\ answers' = Sweep([answers EXCEPT ![q].st = "done",
                                      ![q].res = Outcome(q, answers)])
  /\ s2c' = Append(s2c, ReturnMsg(q, Outcome(q, answers), sclock + 1))
  /\ UNCHANGED << argc, prog, link, c2s, arrivals, sclock >>
  /\ UNCHANGED clientVars

\* An evaluation reaches a call of a function the client hosts: the service
\* calls back, with the parameters evaluated, and waits for the Return.
ServerCallback(q) ==
  /\ answers[q].st = "running"
  /\ answers[q].method = "evaluate"
  /\ ~answers[q].cbOut
  /\ Evaluation(q, answers).st = "call"
  /\ answers' = [answers EXCEPT ![q].cbOut = TRUE]
  /\ s2c' = Append(s2c, CallbackMsg(q, Evaluation(q, answers).cap,
                                    Evaluation(q, answers).vals, sclock + 1))
  /\ UNCHANGED << argc, prog, link, c2s, arrivals, sclock >>
  /\ UNCHANGED clientVars

\* The Return of a call to the client arrives: the evaluation goes on.
ServerRecvReturn ==
  /\ c2s # <<>>
  /\ Head(c2s).type = "return"
  /\ LET m == Head(c2s)
     IN  answers' =
           IF answers[m.q].cbOut
             THEN [answers EXCEPT ![m.q].cb = Append(@, m.res), ![m.q].cbOut = FALSE]
             ELSE answers
  /\ sclock' = Max(sclock, Head(c2s).hop)
  /\ c2s' = Tail(c2s)
  /\ UNCHANGED << argc, prog, link, s2c, arrivals >>
  /\ UNCHANGED clientVars

\* The client has dropped its promises: their answers are forgotten, those
\* that calls already received still need once these calls are done.
ServerRecvFinish ==
  /\ c2s # <<>>
  /\ Head(c2s).type = "finish"
  /\ answers' = Sweep([q \in DOMAIN answers |->
                         IF q \in Head(c2s).qs /\ answers[q].st # "none"
                           THEN [answers[q] EXCEPT !.finished = TRUE]
                           ELSE answers[q]])
  /\ sclock' = Max(sclock, Head(c2s).hop)
  /\ c2s' = Tail(c2s)
  /\ UNCHANGED << argc, prog, link, s2c, arrivals >>
  /\ UNCHANGED clientVars

Next ==
  \/ ClientArgCheck
  \/ ClientBegin
  \/ ClientSend
  \/ ClientWait
  \/ ClientRecvReturn
  \/ ClientDispatchCall
  \/ ClientDrop
  \/ ClientEnd
  \/ ClientReturn
  \/ ServerRecvCall
  \/ \E q \in DOMAIN answers : ServerDeliver(q)
  \/ \E q \in DOMAIN answers : ServerComplete(q)
  \/ \E q \in DOMAIN answers : ServerCallback(q)
  \/ ServerRecvReturn
  \/ ServerRecvFinish

Spec == Init /\ [][Next]_vars

\* The same session under any of the clients.
SpecClients == InitClients /\ [][Next]_vars

\* Both event loops keep turning while there is something to do.
FairSpec == Spec /\ WF_vars(Next)

\* The same session under the clients that misuse it as well.
InitErrors == \E p \in (Clients \ {MainProgram}) \cup ErrorClients : InitWith(p)

SpecErrors == InitErrors /\ [][Next]_vars

(***************************************************************************)
(* Failure of the transport.  The connection is lost with whatever was in  *)
(* flight, the service tears the session down, and the client, the next    *)
(* time its event loop runs, breaks every promise that was outstanding.    *)
(***************************************************************************)
Disconnect ==
  /\ link = "up"
  /\ status = "running"
  /\ link' = "down"
  /\ c2s' = <<>>
  /\ s2c' = <<>>
  /\ answers' = [q \in DOMAIN answers |-> NoAnswer]
  /\ UNCHANGED << argc, prog, arrivals, sclock >>
  /\ UNCHANGED clientVars

FailPending(qs) ==
  [q \in DOMAIN qs |-> IF qs[q].st = "pending" THEN Broken ELSE qs[q]]

\* Inside wait(): the client learns that the connection is lost.
ClientFail ==
  /\ link = "down"
  /\ Suspended
  /\ questions' = FailPending(questions)
  /\ UNCHANGED << argc, prog, link, pc, status, exitCode, exports, clock, cur,
                  stats, powerCalls, c2s, s2c, answers, arrivals, sclock >>

System == Next \/ ClientFail

NextFail == System \/ Disconnect

\* main() over a connection that may fail at any moment; the failure itself
\* is not forced to happen.
SpecFail == Init /\ [][NextFail]_vars /\ WF_vars(System)

(***************************************************************************)
(* Helpers for the properties: the shape of a program's call graph.        *)
(***************************************************************************)
\* The questions a sent call is pipelined on: its target and the promised
\* capabilities in its parameters.
DependsOn(st) ==
  (IF st.target.kind = "promised" THEN {st.target.id} ELSE {})
    \cup PromisedIn(st.args.expr)

\* The scenario statement i of program p belongs to.
ScenarioAt(p, i) ==
  LET b == { j \in 1..i : p[j].op = "begin" }
  IN  IF b = {} THEN 0
      ELSE p[CHOOSE j \in b : \A o \in b : o <= j].scen

SendsOf(p, s) ==
  { i \in 1..Len(p) : p[i].op = "send" /\ ScenarioAt(p, i) = s }

\* The statement that sends question q.
SendOf(p, q) == CHOOSE i \in 1..Len(p) : p[i].op = "send" /\ p[i].q = q

Applied(a) == a.st \in {"running", "done"}

\* C1: a call addressed to a promise is applied (delivered to its target) only
\* once that promise has resolved, and after every call the client pipelined
\* on the same promise before it; an evaluation that yields a value has used
\* the promised Functions and Values of its expression only after they
\* resolved.
C1_PipelinedAfterResolution ==
  [][\A q \in DOMAIN answers :
       /\ (~Applied(answers[q]) /\ Applied(answers'[q])
             /\ answers'[q].target.kind = "promised") =>
            /\ answers[answers'[q].target.id].st = "done"
            /\ \A o \in DOMAIN answers :
                 (/\ prog[SendOf(prog, o)].target = answers'[q].target
                  /\ SendOf(prog, o) < SendOf(prog, q)) => Applied(answers[o])
       /\ (answers[q].st = "running" /\ answers'[q].st = "done"
             /\ answers'[q].res.type = "value") =>
            \A d \in PromisedIn(answers[q].args.expr) : answers[d].st = "done"
    ]_vars

\* C1 witness: two read() calls pipelined on the same evaluate() promise both
\* arrived while it was pending, were held, and have both been applied.
C1_Witness ==
  \E q, o \in DOMAIN answers :
    /\ q # o
    /\ answers[q].target = answers[o].target
    /\ answers[q].target.kind = "promised"
    /\ answers[q].held /\ answers[o].held
    /\ answers[q].st = "done" /\ answers[o].st = "done"

\* What the client has read from question q, once its promise has resolved.
ReadOf(q) == questions[q].res

Resolved(q) == q \in DOMAIN questions /\ questions[q].st = "done"

\* The client is about to send question q.
Sending(q) == At("send") /\ prog[pc].q = q

\* C2: in scenario 3 the Value v of evaluate(multiply(4,6)) is never read;
\* the two evaluations that embed it are sent while v and the add / multiply
\* Functions are still pending and before any wait, and their reads yield 27
\* and 29.
C2_DeferredValueReuse ==
  /\ \A i \in 1..Len(prog) : prog[i].target # Promised("3:multiplyResult")
  /\ (Sending("3:add3Request") \/ Sending("3:add5Request")) =>
       /\ cur.waits = 0
       /\ \A d \in {"3:add", "3:multiply", "3:multiplyResult"} :
            questions[d].st = "pending"
  /\ Resolved("3:add3Promise") => ReadOf("3:add3Promise") = Number(27)
  /\ Resolved("3:add5Promise") => ReadOf("3:add5Promise") = Number(29)

\* C2 witness: both reads have yielded, 27 and 29, and each had arrived at
\* the service before the evaluation it reads had resolved.
C2_Witness ==
  /\ Resolved("3:add3Promise") /\ ReadOf("3:add3Promise").num = 27
  /\ Resolved("3:add5Promise") /\ ReadOf("3:add5Promise").num = 29
  /\ answers["3:add3Promise"].held /\ answers["3:add5Promise"].held

\* C3: evaluating call(power, [2, add(4,5)]) with the client's PowerFunction
\* reads 512, and the service calls the client-hosted function exactly once,
\* with the evaluated parameters [2, 9].
C3_BidirectionalCallback ==
  /\ Len(powerCalls) <= 1
  /\ \A i \in 1..Len(powerCalls) : powerCalls[i] = << 2, 9 >>
  /\ Resolved("5:readRequest") =>
       /\ ReadOf("5:readRequest") = Number(512)
       /\ Len(powerCalls) = 1
  /\ stats[5].done => Len(powerCalls) = 1

\* C3 witness: the read of scenario 5 has yielded 512 after one call to
\* PowerFunction.
C3_Witness ==
  /\ Resolved("5:readRequest") /\ ReadOf("5:readRequest").num = 512
  /\ powerCalls = << << 2, 9 >> >>

\* C4: suspended in the single wait of scenario 5, the client still takes the
\* service's call to PowerFunction and answers it, so the read it waits on
\* resolves: being caller and callee at once does not deadlock.
C4_CallbackNoDeadlock ==
  (cur.scen = 5 /\ Suspended)
    ~> (Resolved("5:readRequest") /\ Len(powerCalls) = 1)

\* C4 witness: the client has dispatched the inbound call while it is still
\* suspended in the wait on its own outbound read.
C4_Witness ==
  /\ cur.scen = 5 /\ Suspended
  /\ prog[pc].q = "5:readRequest"
  /\ Len(powerCalls) = 1

\* The calls of scenario s that depend on one another, directly or not, form
\* a chain; Chains counts the chains that share no call.
Adjacent(p, i, j) == p[j].q \in DependsOn(p[i]) \/ p[i].q \in DependsOn(p[j])

RECURSIVE ChainOf(_, _, _)
ChainOf(p, all, S) ==
  LET N == S \cup { i \in all : \E j \in S : Adjacent(p, i, j) }
  IN  IF N = S THEN S ELSE ChainOf(p, all, N)

Chains(p, s) ==
  LET all == SendsOf(p, s)
  IN  Cardinality({ ChainOf(p, all, {i}) : i \in all })

\* The calls of scenario s nothing else is pipelined on: the ends of chains.
ChainEnds(p, s) ==
  LET all == SendsOf(p, s)
  IN  { i \in all : \A j \in all : p[i].q \notin DependsOn(p[j]) }

\* The shape of main(), per scenario: requests sent, independent chains, ends
\* of chains.
MainSends == [s \in Scenarios |-> Cardinality(SendsOf(MainProgram, s))]

MainChains == [s \in Scenarios |-> Chains(MainProgram, s)]

MainChainEnds == [s \in Scenarios |-> Cardinality(ChainEnds(MainProgram, s))]

\* The literal, add/subtract, pipelined-eval and function-definition scenarios.
Pipelined == 1..4

\* C5 as stated: scenarios 1 to 4 send 2, 4, 6 and 8 requests and take one
\* round trip each.
C5_AsStated ==
  \A s \in Pipelined :
    stats[s].done =>
      /\ stats[s].rpcs = << 2, 4, 6, 8 >>[s]
      /\ stats[s].trips = 1

\* C5 (amended): scenarios 1 to 4 send 2, 4, 7 and 8 requests, each a chain of
\* dependent calls with its waits at the end, and take one round trip each:
\* the round trips do not grow with the number of calls.
C5_RoundTripMinimality ==
  \A s \in Pipelined :
    stats[s].done =>
      /\ stats[s].rpcs = << 2, 4, 7, 8 >>[s]
      /\ prog = MainProgram /\ stats[s].rpcs = MainSends[s]
      /\ stats[s].trips = 1

\* C5 witness: the four scenarios have completed.
C5_Witness == \A s \in Pipelined : stats[s].done /\ stats[s].trips = 1

\* C6 as stated: no scenario takes more round trips than it has independent
\* chains of dependent calls.
C6_AsStated ==
  \A s \in Scenarios : stats[s].done => stats[s].trips <= MainChains[s]

\* The calls the service made to client-hosted functions during scenario s.
Callbacks(s) == IF s = 5 THEN Len(powerCalls) ELSE 0

\* C6 (amended): a scenario takes no more round trips than it has independent
\* chains of dependent calls, plus one for each call the service makes back
\* to a function the client hosts.
C6_ExchangesBounded ==
  \A s \in Scenarios :
    stats[s].done =>
      /\ prog = MainProgram
      /\ stats[s].trips <= MainChains[s] + Callbacks(s)
      /\ (s = 5 => stats[s].trips = 2 /\ MainChains[s] = 1)

\* C6 witness: the callback scenario has completed in two round trips, its
\* three calls forming one chain.
C6_Witness == stats[5].done /\ stats[5].trips = 2 /\ MainChains[5] = 1

\* The steps of main() other than the return from a wait.
ClientStep ==
  \/ ClientArgCheck \/ ClientBegin \/ ClientSend \/ ClientDrop \/ ClientEnd
  \/ ClientReturn

\* C7: the client suspends only in a wait.  Anywhere else it can take its next
\* step at once, also when the call it sends is addressed to, or embeds, a
\* promise that is still pending; when it reaches a wait it has sent every
\* request of the scenario; and a scenario has as many waits as it has ends of
\* chains, not one per call.
C7_SuspendsOnlyAtWait ==
  /\ (Running /\ ~At("wait")) => ENABLED ClientStep
  /\ At("send") => \A d \in DependsOn(prog[pc]) : questions[d].st = "pending"
  /\ At("wait") => prog = MainProgram /\ cur.rpcs = MainSends[cur.scen]
  /\ \A s \in Scenarios :
       stats[s].done =>
         /\ stats[s].waits = MainChainEnds[s]
         /\ stats[s].waits < stats[s].rpcs

\* C7 witness: the client is suspended in the second wait of scenario 3, all
\* seven requests sent, after the first wait has returned.
C7_Witness ==
  /\ Suspended
  /\ cur.scen = 3 /\ cur.rpcs = 7 /\ cur.waits = 1

\* C8: f and g are defined and called while every capability involved is
\* still pending; f(12,34) reads 1234 and g(21) reads 4244, parameter(i) being
\* the i-th argument of the innermost function call.
C8_UserDefinedFunctions ==
  /\ (Sending("4:fEvalRequest") \/ Sending("4:gEvalRequest")) =>
       /\ cur.waits = 0
       /\ \A d \in {"4:add", "4:multiply", "4:f", "4:g"} :
            questions[d].st = "pending"
  /\ Resolved("4:fEvalPromise") => ReadOf("4:fEvalPromise") = Number(1234)
  /\ Resolved("4:gEvalPromise") => ReadOf("4:gEvalPromise") = Number(4244)

\* C8 witness: both reads have yielded, 1234 and 4244, the evaluation of g(21)
\* having arrived at the service before g was defined there.
C8_Witness ==
  /\ Resolved("4:fEvalPromise") /\ ReadOf("4:fEvalPromise").num = 1234
  /\ Resolved("4:gEvalPromise") /\ ReadOf("4:gEvalPromise").num = 4244
  /\ answers["4:gEvalPromise"].held

\* C9: subtract(add(123,45),67), sent while the add and subtract Functions are
\* still pending getOperator() promises, reads 101: the parameters are taken
\* in order.
C9_OperatorComposition ==
  /\ Sending("2:evalPromise") =>
       \A d \in {"2:add", "2:subtract"} : questions[d].st = "pending"
  /\ Resolved("2:readPromise") =>
       /\ ReadOf("2:readPromise") = Number(101)
       /\ ReadOf("2:readPromise").num = (123 + 45) - 67
       /\ ReadOf("2:readPromise").num # 67 - (123 + 45)

\* C9 witness: the read has yielded 101, having arrived at the service before
\* the evaluation resolved.
C9_Witness ==
  /\ Resolved("2:readPromise") /\ ReadOf("2:readPromise").num = 101
  /\ answers["2:readPromise"].held

\* C10: for every literal n tried, evaluate(literal(n)) with the read() sent
\* on the Value while its promise is pending reads n.
C10_LiteralEvaluation ==
  /\ Sending("1:readPromise") => questions["1:evalPromise"].st = "pending"
  /\ \A n \in LiteralInputs \cup {123} :
       (prog \in {Main(n), LiteralOnly(n), ReadTwice(n)} /\ Resolved("1:readPromise"))
         => ReadOf("1:readPromise") = Number(n)

\* C10 witness: a literal other than the sample's 123 has been read back.
C10_Witness ==
  /\ prog = LiteralOnly(-1)
  /\ Resolved("1:readPromise") /\ ReadOf("1:readPromise").num = -1

\* The clients that call a Function with k parameters, by k.
PowerClients == [k \in ParamCounts |-> CallPower(k)]

OperatorClients == [k \in ParamCounts |-> CallOperator(k)]

DefinedClients == [k \in ParamCounts |-> CallDefined(k)]

\* A call refused for its number of parameters: by the service, or by
\* PowerFunction's KJ_REQUIRE.
ArityViolation(r) ==
  r.type = "error" /\ r.err \in {"ArityError", "Wrong number of parameters."}

\* What the read of a call with k parameters must yield: the number when k is
\* two, else the arity failure and no number.
ArityChecked(q, k, n) ==
  Resolved(q) => IF k = 2 THEN ReadOf(q) = Number(n) ELSE ArityViolation(ReadOf(q))

\* The evaluation a read is pipelined on has produced no Value when k # 2.
NoValue(q, k) ==
  (k # 2 /\ answers[q].st = "done") => ArityViolation(answers[q].res)

\* C11: a Function called with k parameters, k # 2 (PowerFunction, the add
\* operator, the defined f(x, y)), fails with the arity error: the evaluation
\* yields no Value, the read no number, and PowerFunction has been handed the
\* k parameters as they were sent, neither cut nor filled up to two.  With two
\* parameters the calls yield 2^3, 2+3 and 2*100+3.
C11_ArityViolation ==
  \A k \in ParamCounts :
    /\ prog = PowerClients[k] =>
         /\ ArityChecked("5:readRequest", k, 8)
         /\ NoValue("5:request", k)
         /\ \A i \in 1..Len(powerCalls) :
              powerCalls[i] = [j \in 1..k |-> j + 1]
         /\ k # 2 => ~(status = "exit" /\ exitCode = SuccessExit)
    /\ prog = OperatorClients[k] =>
         /\ ArityChecked("2:readPromise", k, 5)
         /\ NoValue("2:evalPromise", k)
    /\ prog = DefinedClients[k] =>
         /\ ArityChecked("4:fEvalPromise", k, 203)
         /\ NoValue("4:fEvalRequest", k)

\* C11 witness: PowerFunction was called with the three parameters 2, 3, 4 and
\* the read came back as the failure; the wait has thrown.
C11_Witness ==
  /\ prog = CallPower(3)
  /\ powerCalls = << << 2, 3, 4 >> >>
  /\ Resolved("5:readRequest")
  /\ ReadOf("5:readRequest") = Failure("Wrong number of parameters.")
  /\ status = "abort"

\* What a read() of the resolved Value v yields.
ReadYield(v) == IF v.res.type = "value" THEN Number(v.res.num) ELSE v.res

\* The reads that have completed on the same Value agree.
ReadsAgree(ans) ==
  \A q, o \in DOMAIN ans :
    (/\ ans[q].method = "read" /\ ans[o].method = "read"
     /\ ans[q].st = "done" /\ ans[o].st = "done"
     /\ ans[q].target = ans[o].target) => ans[q].res = ans[o].res

\* C12: the answer to an evaluate (the Value) resolves once, to a Value or to
\* an error, and once resolved nothing about it changes until it is released;
\* it never goes back to pending.  A read completes only on a resolved Value
\* and yields its number, or its error; all reads of one Value agree.  The
\* promise the client holds likewise resolves once and keeps its result.
C12_ValueRefStateMachine ==
  [][/\ \A q \in DOMAIN answers :
          /\ answers[q].st = "done" =>
               \/ answers'[q] = answers[q]
               \/ answers'[q] = [answers[q] EXCEPT !.finished = TRUE]
               \/ answers'[q] = NoAnswer
          /\ (answers[q].st # "done" /\ answers'[q].st = "done"
                /\ answers'[q].method = "evaluate") =>
               /\ answers[q].st = "running"
               /\ answers'[q].res.type \in {"value", "error"}
          /\ (answers[q].st # "done" /\ answers'[q].st = "done"
                /\ answers'[q].method = "read") =>
               /\ answers[answers[q].target.id].st = "done"
               /\ answers'[q].res = ReadYield(answers[answers[q].target.id])
               /\ answers'[q].res.type \in {"number", "error"}
     /\ ReadsAgree(answers) /\ ReadsAgree(answers')
     /\ \A q \in DOMAIN questions :
          questions[q].st = "done" => questions'[q] \in {questions[q], NoQuestion}
    ]_vars

\* C12 witness: two reads of one Value have completed, the second having
\* arrived after the Value had resolved, and the client has both results:
\* the same number for a Value, the same error for a failed one.
C12_Witness ==
  \/ /\ prog = ReadTwice(-1)
     /\ ~answers["1:readAgain"].held
     /\ Resolved("1:readPromise") /\ Resolved("1:readAgain")
     /\ ReadOf("1:readPromise") = Number(-1) /\ ReadOf("1:readAgain") = Number(-1)
  \/ /\ prog = ReadTwiceOf(3)
     /\ ~answers["2:readAgain"].held
     /\ answers["2:readPromise"].st = "done" /\ answers["2:readAgain"].st = "done"
     /\ answers["2:readAgain"].res = Failure("ArityError")

\* The promises the client holds that have not resolved.
Outstanding == { q \in DOMAIN questions : questions[q].st = "pending" }

\* C13: once the transport has failed, a promise that was outstanding is not
\* resolved any more: it is broken with the transport's failure, unless the
\* client destroys it first, and when the suspended client learns of the
\* failure every outstanding promise is broken at once.  A client with
\* outstanding promises does not hang: the wait it is in, or the next one it
\* comes to, throws that failure.
C13_TransportFailurePropagates ==
  /\ [][link = "down" =>
          /\ \A q \in Outstanding :
               questions'[q] \in {questions[q], Broken, NoQuestion}
          /\ (Suspended /\ questions' # questions) =>
               \A q \in DOMAIN questions : questions'[q].st # "pending"
       ]_vars
  /\ (link = "down" /\ Outstanding # {})
       ~> (status = "abort" /\ questions[prog[pc].q] = Broken)

\* C13 witness: the connection failed during scenario 3 with both reads
\* outstanding; both promises are broken and the first wait has thrown.
C13_Witness ==
  /\ link = "down"
  /\ status = "abort"
  /\ prog[pc].q = "3:add3Promise"
  /\ questions["3:add3Promise"] = Broken
  /\ questions["3:add5Promise"] = Broken

\* The service has something to deliver or to complete: the guards of
\* ServerDeliver and ServerComplete.
ServiceCanStep ==
  \E q \in DOMAIN answers :
    \/ /\ answers[q].st = "held"
       /\ TargetResolved(answers[q].target, answers)
       /\ FirstHeld(q, answers)
    \/ /\ answers[q].st = "running"
       /\ ~answers[q].cbOut
       /\ Outcome(q, answers).type # "none"

\* The clients with two chains, by k and by which result is waited for first.
SiblingClients ==
  [k \in ParamCounts, okFirst \in BOOLEAN |-> Siblings(k, okFirst)]

\* C14: of two evaluate+read chains sent before any wait, the first calling f
\* with k parameters (failing for k # 2), the second, f(12, 34), is neither
\* corrupted nor cancelled: its evaluation resolves to the Value 1234 and its
\* read to 1234, at the service and at the client, whichever result is waited
\* for first; once received its calls stay with the service, which can go on
\* with them until the read is done.  The failing chain reads as its failure.
C14_SiblingBranchesUnaffected ==
  \A k \in ParamCounts, okFirst \in BOOLEAN :
    prog = SiblingClients[k, okFirst] =>
      /\ answers["4:fEvalRequest"].st = "done" =>
           answers["4:fEvalRequest"].res = ValueCap(1234)
      /\ answers["4:fEvalPromise"].st = "done" =>
           answers["4:fEvalPromise"].res = Number(1234)
      /\ Resolved("4:fEvalPromise") => ReadOf("4:fEvalPromise") = Number(1234)
      /\ (k # 2 /\ Resolved("4:badPromise")) =>
           ReadOf("4:badPromise") = Failure("ArityError")
      /\ (k # 2 /\ arrivals = 7) =>
           /\ answers["4:fEvalPromise"].st # "none"
           /\ answers["4:fEvalPromise"].st # "done" =>
                (answers["4:fEvalRequest"].st # "none" /\ ServiceCanStep)

\* C14 witness: the failing chain's Return reached the client before the
\* sibling's; the client has read 1234 from the sibling and then the failure,
\* on which the second wait threw.
C14_Witness ==
  /\ prog = Siblings(1, TRUE)
  /\ answers["4:badPromise"].seq < answers["4:fEvalPromise"].seq
  /\ ReadOf("4:fEvalPromise") = Number(1234)
  /\ ReadOf("4:badPromise") = Failure("ArityError")
  /\ cur.waits = 2 /\ status = "abort"

\* The questions main() has dropped by destroying a temporary promise.
Dropped == { prog[i].q : i \in { j \in 1..(pc - 1) : prog[j].op = "drop" } }

\* Nothing is left of any call, at the client or at the service.
NothingInFlight ==
  /\ \A q \in DOMAIN questions : questions[q] = NoQuestion
  /\ \A q \in DOMAIN answers : answers[q] = NoAnswer
  /\ c2s = <<>> /\ s2c = <<>>

\* C15: a promise the client destroys, resolved or not, leaves nothing behind:
\* the client holds no question for it, the service keeps the answer the
\* client has finished with only while a call it has received still needs
\* it, and when main() has returned and the last message has been taken
\* nothing is left of any call.  The calls pipelined on a dropped promise,
\* and the calls next to it, yield what they yield otherwise.
C15_DroppedPromisesReleased ==
  /\ \A q \in Dropped : questions[q] = NoQuestion
  /\ \A q \in DOMAIN answers :
       answers[q].finished => Dependents(q, answers) # {}
  /\ (status = "exit" /\ exitCode = SuccessExit /\ c2s = <<>>) => NothingInFlight
  /\ prog = MainProgram =>
       /\ Resolved("3:add3Promise") => ReadOf("3:add3Promise") = Number(27)
       /\ Resolved("3:add5Promise") => ReadOf("3:add5Promise") = Number(29)
       /\ Resolved("4:fEvalPromise") => ReadOf("4:fEvalPromise") = Number(1234)
       /\ Resolved("4:gEvalPromise") => ReadOf("4:gEvalPromise") = Number(4244)
       /\ Resolved("5:readRequest") => ReadOf("5:readRequest") = Number(512)
  /\ \A n \in LiteralInputs :
       (prog = DropUnread(n) /\ Resolved("1:readPromise")) =>
         ReadOf("1:readPromise") = Number(n)

\* C15 witness: in scenario 3 the promise of the second evaluation was dropped
\* and the service was told so before the evaluation had resolved; the read
\* next to it has already yielded 27 and the read pipelined on it is held.
C15_Witness ==
  /\ prog = MainProgram
  /\ "3:add5Request" \in Dropped
  /\ answers["3:add5Request"].finished
  /\ answers["3:add5Request"].st = "running"
  /\ answers["3:add5Promise"].st = "held"
  /\ Resolved("3:add3Promise") /\ ReadOf("3:add3Promise") = Number(27)

\* The place of question q among the calls main() sends, in program order.
Rank(q) ==
  Cardinality({ i \in 1..SendOf(prog, q) : prog[i].op = "send" })

\* C16: the service receives the calls in the order main() sent them, and a
\* call addressed to the calculator is delivered as it is received: the
\* getOperator, defFunction and evaluate requests of a scenario reach the
\* calculator in program order.  A call addressed to a promise is delivered
\* after the calls that were sent to the same promise before it.  (That the
\* answers to independent calls may come in another order is the witness.)
C16_DeliveredInProgramOrder ==
  [][\A q \in DOMAIN answers :
       /\ (answers[q].st = "none" /\ answers'[q].st # "none") =>
            /\ answers'[q].seq = Rank(q)
            /\ answers'[q].seq = arrivals + 1
            /\ answers'[q].target = Calculator => answers'[q].st = "running"
       /\ (~Applied(answers[q]) /\ Applied(answers'[q])) =>
            \A o \in DOMAIN answers :
              (/\ answers[o].st # "none"
               /\ answers[o].target = answers'[q].target
               /\ answers[o].seq < answers'[q].seq) => Applied(answers[o])
    ]_vars

\* C16 witness: in scenario 4 the calculator has taken getOperator(ADD),
\* getOperator(MULTIPLY) and defFunction(f) in that order, and has resolved
\* the last two while the first is still running.
C16_Witness ==
  /\ prog = MainProgram
  /\ answers["4:add"].st = "running"
  /\ answers["4:multiply"].st = "done"
  /\ answers["4:f"].st = "done"
  /\ answers["4:add"].seq < answers["4:multiply"].seq
  /\ answers["4:multiply"].seq < answers["4:f"].seq

\* The clients that define h naming parameter(i), by i.
UnboundClients == [i \in ParamCounts |-> UnboundParameter(i)]

\* C17: h is defined with paramCount = 1 and a body that names parameter(i).
\* The definition succeeds whatever i is and resolves to the function as
\* defined; for i >= 1 it is the call h(21) that fails, with
\* UnboundParameterError, its evaluation yielding no Value and its read no
\* number; for i = 0 the call reads 21 + 21.
C17_UnboundParameterAtCallTime ==
  \A i \in ParamCounts :
    prog = UnboundClients[i] =>
      /\ answers["4:g"].st = "done" => answers["4:g"].res = UserFunc(1, HBody(i))
      /\ Resolved("4:g") => ReadOf("4:g").type = "func"
      /\ answers["4:gEvalRequest"].st = "done" =>
           answers["4:gEvalRequest"].res =
             IF i >= 1 THEN Failure("UnboundParameterError") ELSE ValueCap(42)
      /\ Resolved("4:gEvalPromise") =>
           ReadOf("4:gEvalPromise") =
             IF i >= 1 THEN Failure("UnboundParameterError") ELSE Number(42)

\* C17 witness: the definition naming parameter(1) has resolved to a function
\* at the client, and the read of h(21) has come back as the failure.
C17_Witness ==
  /\ prog = UnboundParameter(1)
  /\ Resolved("4:g") /\ ReadOf("4:g") = UserFunc(1, HBody(1))
  /\ Resolved("4:gEvalPromise")
  /\ ReadOf("4:gEvalPromise") = Failure("UnboundParameterError")
  /\ status = "abort"

\* What holds of main()'s exit in every state.
ExitDiscipline ==
  /\ argc # 2 =>
       /\ pc = 1 /\ cur.rpcs = 0 /\ arrivals = 0 /\ c2s = <<>>
       /\ \A q \in DOMAIN questions : questions[q] = NoQuestion
       /\ status = "exit" => exitCode = UsageExit
  /\ status = "exit" => exitCode \in {UsageExit, SuccessExit}
  /\ (status = "exit" /\ exitCode = UsageExit) => argc # 2
  /\ (status = "exit" /\ exitCode = SuccessExit) =>
       /\ argc = 2
       /\ \A s \in Scenarios :
            stats[s].done /\ stats[s].waits = MainChainEnds[s]
  /\ \A s \in Scenarios :
       (stats[s].done \/ cur.scen = s) => \A t \in 1..(s - 1) : stats[t].done
  /\ status = "abort" =>
       /\ exitCode # SuccessExit
       /\ prog[pc].op = "wait" /\ cur.scen = ScenarioAt(prog, pc)
       /\ \A t \in Scenarios : t >= cur.scen => ~stats[t].done

\* C18: with an argument count other than 2 main() returns 1 at once and no
\* call is ever sent.  It returns 0 only with the five scenarios completed,
\* each after the ones before it, and a wait is passed only with the asserted
\* value.  A wait that throws, or whose value is not the asserted one, ends
\* the run there, without a return value: the scenario is not completed, no
\* later one is started, and main() does nothing more.
C18_ExitCodes ==
  /\ []ExitDiscipline
  /\ [][/\ (At("wait") /\ pc' = pc + 1) =>
             questions[prog[pc].q].res = Number(prog[pc].expect)
        /\ (At("wait") /\ cur'.waits # cur.waits
              /\ questions[prog[pc].q].res # Number(prog[pc].expect)) =>
             status' = "abort"
        /\ status \in {"abort", "exit"} =>
             (UNCHANGED clientVars /\ Len(c2s') <= Len(c2s))
       ]_vars

\* C18 witness: the second wait of scenario 3 has thrown; scenarios 1 and 2
\* are completed, scenario 3 is not and scenario 4 has not started.
C18_Witness ==
  /\ status = "abort"
  /\ cur.scen = 3 /\ cur.waits = 2
  /\ prog[pc].q = "3:add5Promise"
  /\ stats[1].done /\ stats[2].done /\ ~stats[3].done /\ ~stats[4].done
  /\ questions["4:add"] = NoQuestion

\* The hops the client has seen go by since the scenario began.
Hops == clock - cur.start

\* C19: the callback scenario completes in exactly two round trips, one more
\* than each of the other four, with PowerFunction called once.  The service
\* does not hand the evaluation over to the client: it resolves it only after
\* PowerFunction's Return has come back, so when the call arrives at the
\* client one round trip is over and the read has not resolved, and the read
\* resolves four hops after the scenario began.
C19_CallbackTakesTwoRoundTrips ==
  /\ stats[5].done =>
       /\ stats[5].trips = 2 /\ stats[5].rpcs = 3
       /\ Len(powerCalls) = 1
       /\ \A s \in Pipelined : stats[s].trips = stats[5].trips - 1
  /\ cur.scen = 5 =>
       /\ answers["5:request"].cbOut => ~Resolved("5:readRequest")
       /\ answers["5:request"].st = "done" =>
            (Len(answers["5:request"].cb) = 1 /\ Len(powerCalls) = 1)
       /\ Hops \in {0, 2, 4}
       /\ answers["5:request"].cbOut => Hops <= 2
       /\ Len(powerCalls) = 1 => Hops >= 2
       /\ Resolved("5:readRequest") => Hops = 4

\* C19 witness: PowerFunction has been called, one round trip after the
\* scenario began, and the client is still suspended in its wait: the read
\* has not resolved and the service is waiting for the Return.
C19_Witness ==
  /\ cur.scen = 5 /\ Suspended
  /\ Len(powerCalls) = 1 /\ Hops = 2
  /\ answers["5:request"].cbOut
  /\ answers["5:readRequest"].st = "held"

\* The promises main() waits on that have resolved hold the asserted values.
AssertedValues ==
  \A i \in 1..Len(prog) :
    (prog[i].op = "wait" /\ Resolved(prog[i].q)) =>
      ReadOf(prog[i].q) = Number(prog[i].expect)

\* C20: in whatever order the service completes the calls that do not depend
\* on one another, and so in whatever order the Returns reach the client, no
\* wait of main() throws, every promise waited on holds the asserted value
\* (123, 101, 27, 29, 1234, 4244, 512), and main() started with HOST:PORT
\* returns 0: every wait it is suspended in on the way has returned.
C20_OutcomeIndependentOfOrder ==
  /\ [](status # "abort" /\ AssertedValues)
  /\ (argc = 2) ~> (status = "exit" /\ exitCode = SuccessExit /\ ~Suspended)

\* C20 witness: in scenario 4 the read of g(21), sent second and waited for
\* second, has resolved at the client while it is still suspended in the
\* wait for the read of f(12, 34).
C20_Witness ==
  /\ Suspended
  /\ prog[pc].q = "4:fEvalPromise"
  /\ Resolved("4:gEvalPromise") /\ ReadOf("4:gEvalPromise") = Number(4244)
  /\ answers["4:fEvalPromise"].st # "done"

====
